---- MODULE Spec2Model ----
(***************************************************************************)
(* A model of commit_msg.py, the conventional-commit validator run as a    *)
(* git commit-msg hook.                                                    *)
(*                                                                         *)
(* Text is a sequence of characters, each character a one-character        *)
(* string; a line is such a sequence without "\n".  Indices into `lines`   *)
(* are 0-based, as in the source (header_idx, first_footer_idx).           *)
(***************************************************************************)
EXTENDS Integers, Sequences, FiniteSets, TLC

(***************************************************************************)
(* Characters and string helpers                                           *)
(***************************************************************************)

Lower == {"a", "b", "c", "d", "e", "f", "g", "h", "i", "j", "k", "l", "m",
          "n", "o", "p", "q", "r", "s", "t", "u", "v", "w", "x", "y", "z"}

Upper == {"A", "B", "C", "D", "E", "F", "G", "H", "I", "J", "K", "L", "M",
          "N", "O", "P", "Q", "R", "S", "T", "U", "V", "W", "X", "Y", "Z"}

Digit == {"0", "1", "2", "3", "4", "5", "6", "7", "8", "9"}

\* The characters \s and str.strip() treat as whitespace (those of the model).
Space == {" ", "\t", "\n", "\r", "\f"}

NL == "\n"

\* lines[i] of the source, i counted from 0.
At(seq, i) == seq[i + 1]

\* str.startswith(p)
StartsWith(s, p) == Len(s) >= Len(p) /\ SubSeq(s, 1, Len(p)) = p

\* str.endswith(p)
EndsWith(s, p) == Len(s) >= Len(p) /\ SubSeq(s, Len(s) - Len(p) + 1, Len(s)) = p

\* The literal p occurs in s at position i (1-based).
MatchAt(s, i, p) == i >= 1 /\ i + Len(p) - 1 <= Len(s) /\ SubSeq(s, i, i + Len(p) - 1) = p

\* `not line.strip()`: the line holds nothing but whitespace.
IsBlank(line) == \A i \in 1..Len(line) : line[i] \in Space

\* The indices 1..Len(s) as a sequence.
Indices(s) == [i \in 1..Len(s) |-> i]

\* Length of the longest prefix of s made of characters of class.
PrefixRun(s, class) ==
    IF \A i \in 1..Len(s) : s[i] \in class
    THEN Len(s)
    ELSE (CHOOSE i \in 1..Len(s) :
              s[i] \notin class /\ \A j \in 1..(i - 1) : s[j] \in class) - 1

\* raw.replace("\r\n", "\n"): every "\r" directly followed by "\n" is dropped.
ReplaceCRLF(s) ==
    LET keep == SelectSeq(Indices(s),
                          LAMBDA i : ~(s[i] = "\r" /\ i < Len(s) /\ s[i + 1] = "\n"))
    IN  [k \in 1..Len(keep) |-> s[keep[k]]]

\* .replace("\r", "\n")
ReplaceCR(s) == [i \in 1..Len(s) |-> IF s[i] = "\r" THEN "\n" ELSE s[i]]

\* text.split("\n"): always at least one line.
Split(s) ==
    LET nl == SelectSeq(Indices(s), LAMBDA i : s[i] = NL)
        n  == Len(nl) + 1
    IN  [k \in 1..n |->
            SubSeq(s,
                   IF k = 1 THEN 1 ELSE nl[k - 1] + 1,
                   IF k = n THEN Len(s) ELSE nl[k] - 1)]

\* "\n".join(lines)
RECURSIVE Join(_)
Join(ls) ==
    IF ls = <<>> THEN <<>>
    ELSE IF Len(ls) = 1 THEN ls[1]
    ELSE ls[1] \o <<NL>> \o Join(Tail(ls))

(***************************************************************************)
(* Module constants of commit_msg.py                                       *)
(***************************************************************************)

ALLOWED_TYPES ==
    { <<"f", "e", "a", "t">>,
      <<"f", "i", "x">>,
      <<"r", "e", "f", "a", "c", "t", "o", "r">>,
      <<"f", "m", "t">>,
      <<"t", "e", "s", "t">>,
      <<"d", "o", "c", "s">>,
      <<"b", "u", "i", "l", "d">>,
      <<"c", "h", "o", "r", "e">> }

\* ("Merge ", "Revert ", "fixup! ", "squash! ") without the last prefix.
AUTO_BYPASS_PREFIXES_NoSquash ==
    { <<"M", "e", "r", "g", "e", " ">>,
      <<"R", "e", "v", "e", "r", "t", " ">>,
      <<"f", "i", "x", "u", "p", "!", " ">> }

AUTO_BYPASS_PREFIXES ==
    { <<"M", "e", "r", "g", "e", " ">>,
      <<"R", "e", "v", "e", "r", "t", " ">>,
      <<"f", "i", "x", "u", "p", "!", " ">>,
      <<"s", "q", "u", "a", "s", "h", "!", " ">> }

BREAKING_CHANGE == <<"B", "R", "E", "A", "K", "I", "N", "G", " ", "C", "H", "A", "N", "G", "E">>

\* The subject length limit of validate_header.
MAX_SUBJECT_LEN == 50

\* The body line length limit of validate_body.
MAX_BODY_LINE_LEN == 72

\* HEADER_RE = ^([a-z]+)(\(([^)]+)\))?(!)?:\s*(.+)$ matched against a line.
\* [a-z]+ is followed by "(", "!" or ":", none of them a letter, so the type
\* is the longest run of lowercase letters; [^)]+ ends at the first ")";
\* \s* is greedy and gives one character back when nothing else is left
\* for (.+).
HEADER_RE(h) ==
    LET n        == Len(h)
        te       == PrefixRun(h, Lower)
        open     == te < n /\ h[te + 1] = "("
        closes   == {i \in (te + 2)..n : h[i] = ")"}
        close    == IF closes = {} THEN 0
                    ELSE CHOOSE i \in closes : \A j \in closes : i <= j
        hasScope == open /\ close > te + 2
        p1       == IF hasScope THEN close ELSE te
        hasBang  == p1 < n /\ h[p1 + 1] = "!"
        p2       == IF hasBang THEN p1 + 1 ELSE p1
        colon    == p2 < n /\ h[p2 + 1] = ":"
        rest     == SubSeq(h, p2 + 2, n)
        ws       == PrefixRun(rest, Space)
        skip     == IF ws = Len(rest) THEN ws - 1 ELSE ws
    IN  IF te >= 1 /\ colon /\ Len(rest) >= 1
        THEN [matched |-> TRUE,
              type    |-> SubSeq(h, 1, te),
              scope   |-> IF hasScope THEN SubSeq(h, te + 2, close - 1) ELSE <<>>,
              bang    |-> IF hasBang THEN <<"!">> ELSE <<>>,
              subject |-> SubSeq(rest, skip + 1, Len(rest))]
        ELSE [matched |-> FALSE, type |-> <<>>, scope |-> <<>>, bang |-> <<>>,
              subject |-> <<>>]

\* The class [A-Za-z-] of FOOTER_RE.
TokenChars == Upper \cup Lower \cup {"-"}

\* FOOTER_RE = ^(BREAKING CHANGE|[A-Za-z-]+):\s matched against a line.  ":"
\* is not in [A-Za-z-], so the token is the longest run of its characters.
FOOTER_RE(line) ==
    \/ /\ StartsWith(line, BREAKING_CHANGE \o <<":">>)
       /\ Len(line) >= Len(BREAKING_CHANGE) + 2
       /\ line[Len(BREAKING_CHANGE) + 2] \in Space
    \/ LET k == PrefixRun(line, TokenChars)
       IN  /\ k >= 1
           /\ Len(line) >= k + 2
           /\ line[k + 1] = ":"
           /\ line[k + 2] \in Space

\* DIFF_RE = ^(diff --git |\+\+\+ |--- |@@ ) with re.MULTILINE, searched in
\* the text: ^ matches at the start of the text and after every "\n".
DIFF_RE(text) ==
    \E i \in 1..Len(text) :
       /\ (i = 1 \/ text[i - 1] = NL)
       /\ \/ MatchAt(text, i, <<"d", "i", "f", "f", " ", "-", "-", "g", "i", "t", " ">>)
          \/ MatchAt(text, i, <<"+", "+", "+", " ">>)
          \/ MatchAt(text, i, <<"-", "-", "-", " ">>)
          \/ MatchAt(text, i, <<"@", "@", " ">>)

\* IGNORE_MARKER_RE = \s*-+\s+IGNORE\s*-+ searched in the text: a hyphen, at
\* least one whitespace character, IGNORE, any whitespace, a hyphen.  \s
\* matches "\n", so the marker may span lines.
IGNORE_MARKER_RE(text) ==
    \E p \in 1..Len(text) :
       /\ MatchAt(text, p, <<"I", "G", "N", "O", "R", "E">>)
       /\ \E d \in 1..(p - 2) :
             /\ text[d] = "-"
             /\ \A j \in (d + 1)..(p - 1) : text[j] \in Space
       /\ \E q \in (p + 6)..Len(text) :
             /\ text[q] = "-"
             /\ \A j \in (p + 6)..(q - 1) : text[j] \in Space

\* The class of INVALID_SUBJECT_CHARS_RE = ^[a-z0-9 \-_/():,#+]*$
SubjectChars == Lower \cup Digit \cup {" ", "-", "_", "/", "(", ")", ":", ",", "#", "+"}

INVALID_SUBJECT_CHARS_RE(subject) == \A i \in 1..Len(subject) : subject[i] \in SubjectChars

\* The class [A-Za-z0-9/-] of the scope pattern.
ScopeChars == Upper \cup Lower \cup Digit \cup {"/", "-"}

\* re.fullmatch(r"[A-Za-z0-9/-]+", scope)
ScopeFullMatch(scope) ==
    /\ Len(scope) >= 1
    /\ \A i \in 1..Len(scope) : scope[i] \in ScopeChars

\* str.islower() of one character.
IsLower(c) == c \in Lower

(***************************************************************************)
(* The reasons of ValidationError.  A reason is the message raised, with   *)
(* the number formatted into it (0 when the message holds none).           *)
(***************************************************************************)

Reason(msg, arg) == [msg |-> msg, arg |-> arg]

MSG_EMPTY    == "empty commit message"
MSG_HEADER   == "header must match '<type>(<scope>)!: <subject>'"
MSG_TYPE     == "invalid type"
MSG_SCOPE    == "scope must match ^[A-Za-z0-9/-]+$"
MSG_LENGTH   == "subject must be 1-50 chars"
MSG_PERIOD   == "subject must not end with a period"
MSG_CASING   == "subject must start with a lowercase letter"
MSG_CHARSET  == "subject contains invalid characters; allowed: [a-z0-9 -_/():,#+]"
MSG_EXCLAIM  == "subject contains invalid characters; '!' is not allowed"
MSG_BODY     == "body line exceeds 72 chars"
MSG_IGNORE   == "commit message contains forbidden internal markers"
MSG_DIFF     == "commit message appears to contain a raw diff; remove patch content"
MSG_BREAKING == "'!' in header requires a 'BREAKING CHANGE:' footer explaining the change"
MSG_NOFILE   == "commit-msg: message file not provided or does not exist"

Ok == [ok |-> TRUE, reason |-> Reason("", 0)]

\* _raise_invalid(reason)
Raise(msg, arg) == [ok |-> FALSE, reason |-> Reason(msg, arg)]

(***************************************************************************)
(* The functions of commit_msg.py                                          *)
(***************************************************************************)

\* re.match(r"^[\s]*#", line)
IsCommentLine(line) ==
    \E i \in 1..Len(line) : line[i] = "#" /\ \A j \in 1..(i - 1) : line[j] \in Space

\* The three tests of normalize_message's loop: the line is dropped.
IsTemplateLine(line) ==
    \/ IsCommentLine(line)
    \/ StartsWith(line, <<"$">>)
    \/ StartsWith(line, <<"[", "$">>)

\* normalize_message with the newline appended whether or not one is there.
normalize_message_AlwaysAppend(raw) ==
    LET normalized == ReplaceCR(ReplaceCRLF(raw))
        lines      == SelectSeq(Split(normalized), LAMBDA line : ~IsTemplateLine(line))
    IN  [lines |-> lines, sanitized |-> Join(lines) \o <<NL>>]

\* normalize_message with no newline ever appended.
normalize_message_NeverAppend(raw) ==
    LET normalized == ReplaceCR(ReplaceCRLF(raw))
        lines      == SelectSeq(Split(normalized), LAMBDA line : ~IsTemplateLine(line))
    IN  [lines |-> lines, sanitized |-> Join(lines)]

\* normalize_message: the lines returned and the text written to the file.
normalize_message(raw) ==
    LET normalized == ReplaceCR(ReplaceCRLF(raw))
        lines      == SelectSeq(Split(normalized), LAMBDA line : ~IsTemplateLine(line))
        joined     == Join(lines)
    IN  [lines     |-> lines,
         sanitized |-> IF EndsWith(joined, <<NL>>) THEN joined ELSE joined \o <<NL>>]

\* find_header: the first line that is not blank, and its index.
find_header(lines) ==
    LET found == {i \in 0..(Len(lines) - 1) : ~IsBlank(At(lines, i))}
    IN  IF found = {}
        THEN [ok |-> FALSE, reason |-> Reason(MSG_EMPTY, 0), header |-> <<>>, idx |-> 0]
        ELSE LET idx == CHOOSE i \in found : \A j \in found : i <= j
             IN  [ok |-> TRUE, reason |-> Reason("", 0), header |-> At(lines, idx), idx |-> idx]

\* The loop of collect_footers, at index i with first_footer_idx = first.
RECURSIVE FooterScan(_, _, _)
FooterScan(lines, i, first) ==
    IF i < 0 THEN first
    ELSE IF IsBlank(At(lines, i)) THEN FooterScan(lines, i - 1, first)
    ELSE IF FOOTER_RE(At(lines, i)) THEN FooterScan(lines, i - 1, i)
    ELSE first

\* collect_footers with the scan ending above the header line.
RECURSIVE FooterScanToHeader(_, _, _, _)
FooterScanToHeader(lines, i, first, start_idx) ==
    IF i <= start_idx THEN first
    ELSE IF IsBlank(At(lines, i)) THEN FooterScanToHeader(lines, i - 1, first, start_idx)
    ELSE IF FOOTER_RE(At(lines, i)) THEN FooterScanToHeader(lines, i - 1, i, start_idx)
    ELSE first

collect_footers_StopAtHeader(lines, start_idx) ==
    LET first == FooterScanToHeader(lines, Len(lines) - 1, Len(lines), start_idx)
    IN  [footers |-> SelectSeq(SubSeq(lines, first + 1, Len(lines)),
                               LAMBDA line : ~IsBlank(line)),
         first_footer_idx |-> first]

\* collect_footers: start_idx is not used by the source.
collect_footers(lines, start_idx) ==
    LET first == FooterScan(lines, Len(lines) - 1, Len(lines))
    IN  [footers |-> SelectSeq(SubSeq(lines, first + 1, Len(lines)),
                               LAMBDA line : ~IsBlank(line)),
         first_footer_idx |-> first]

\* The result of validate_header: the tuple returned, or the reason raised.
HeaderResult(res, m) ==
    [ok |-> res.ok, reason |-> res.reason,
     type |-> m.type, scope |-> m.scope, bang |-> m.bang, subject |-> m.subject]

\* validate_header with the casing check ahead of the trailing-period check.
validate_header_CasingFirst(header) ==
    LET m == HEADER_RE(header)
        subject_len == Len(m.subject)
    IN  IF ~m.matched THEN HeaderResult(Raise(MSG_HEADER, 0), m)
        ELSE IF m.type \notin ALLOWED_TYPES THEN HeaderResult(Raise(MSG_TYPE, 0), m)
        ELSE IF m.scope # <<>> /\ ~ScopeFullMatch(m.scope)
            THEN HeaderResult(Raise(MSG_SCOPE, 0), m)
        ELSE IF subject_len < 1 \/ subject_len > MAX_SUBJECT_LEN
            THEN HeaderResult(Raise(MSG_LENGTH, subject_len), m)
        ELSE IF m.subject = <<>> \/ ~IsLower(m.subject[1])
            THEN HeaderResult(Raise(MSG_CASING, 0), m)
        ELSE IF EndsWith(m.subject, <<".">>) THEN HeaderResult(Raise(MSG_PERIOD, 0), m)
        ELSE IF ~INVALID_SUBJECT_CHARS_RE(m.subject)
            THEN HeaderResult(Raise(MSG_CHARSET, 0), m)
        ELSE IF \E i \in 1..subject_len : m.subject[i] = "!"
            THEN HeaderResult(Raise(MSG_EXCLAIM, 0), m)
        ELSE HeaderResult(Ok, m)

\* validate_header with the length test written >= instead of >.
validate_header_OffByOne(header) ==
    LET m == HEADER_RE(header)
        subject_len == Len(m.subject)
    IN  IF ~m.matched THEN HeaderResult(Raise(MSG_HEADER, 0), m)
        ELSE IF m.type \notin ALLOWED_TYPES THEN HeaderResult(Raise(MSG_TYPE, 0), m)
        ELSE IF m.scope # <<>> /\ ~ScopeFullMatch(m.scope)
            THEN HeaderResult(Raise(MSG_SCOPE, 0), m)
        ELSE IF subject_len < 1 \/ subject_len >= MAX_SUBJECT_LEN
            THEN HeaderResult(Raise(MSG_LENGTH, subject_len), m)
        ELSE IF EndsWith(m.subject, <<".">>) THEN HeaderResult(Raise(MSG_PERIOD, 0), m)
        ELSE IF m.subject = <<>> \/ ~IsLower(m.subject[1])
            THEN HeaderResult(Raise(MSG_CASING, 0), m)
        ELSE IF ~INVALID_SUBJECT_CHARS_RE(m.subject)
            THEN HeaderResult(Raise(MSG_CHARSET, 0), m)
        ELSE IF \E i \in 1..subject_len : m.subject[i] = "!"
            THEN HeaderResult(Raise(MSG_EXCLAIM, 0), m)
        ELSE HeaderResult(Ok, m)

\* validate_header: the checks in the order of the source, the first that
\* fails raising.
validate_header(header) ==
    LET m == HEADER_RE(header)
        subject_len == Len(m.subject)
    IN  IF ~m.matched THEN HeaderResult(Raise(MSG_HEADER, 0), m)
        ELSE IF m.type \notin ALLOWED_TYPES THEN HeaderResult(Raise(MSG_TYPE, 0), m)
        ELSE IF m.scope # <<>> /\ ~ScopeFullMatch(m.scope)
            THEN HeaderResult(Raise(MSG_SCOPE, 0), m)
        ELSE IF subject_len < 1 \/ subject_len > MAX_SUBJECT_LEN
            THEN HeaderResult(Raise(MSG_LENGTH, subject_len), m)
        ELSE IF EndsWith(m.subject, <<".">>) THEN HeaderResult(Raise(MSG_PERIOD, 0), m)
        ELSE IF m.subject = <<>> \/ ~IsLower(m.subject[1])
            THEN HeaderResult(Raise(MSG_CASING, 0), m)
        ELSE IF ~INVALID_SUBJECT_CHARS_RE(m.subject)
            THEN HeaderResult(Raise(MSG_CHARSET, 0), m)
        ELSE IF \E i \in 1..subject_len : m.subject[i] = "!"
            THEN HeaderResult(Raise(MSG_EXCLAIM, 0), m)
        ELSE HeaderResult(Ok, m)

\* The loop of validate_body at index i, ending before index stop.
RECURSIVE BodyScan(_, _, _)
BodyScan(lines, i, stop) ==
    IF i >= stop THEN Ok
    ELSE IF IsBlank(At(lines, i)) THEN BodyScan(lines, i + 1, stop)
    ELSE IF Len(At(lines, i)) > MAX_BODY_LINE_LEN THEN Raise(MSG_BODY, i + 1)
    ELSE BodyScan(lines, i + 1, stop)

\* validate_body reporting the 0-based index of the line.
RECURSIVE BodyScanZeroBased(_, _, _)
BodyScanZeroBased(lines, i, stop) ==
    IF i >= stop THEN Ok
    ELSE IF IsBlank(At(lines, i)) THEN BodyScanZeroBased(lines, i + 1, stop)
    ELSE IF Len(At(lines, i)) > MAX_BODY_LINE_LEN THEN Raise(MSG_BODY, i)
    ELSE BodyScanZeroBased(lines, i + 1, stop)

validate_body_ZeroBased(lines, header_idx, first_footer_idx) ==
    BodyScanZeroBased(lines, header_idx + 1, first_footer_idx)

\* validate_body
validate_body(lines, header_idx, first_footer_idx) ==
    BodyScan(lines, header_idx + 1, first_footer_idx)

\* ensure_no_diff_or_ignore_markers without its search for diff markers.
ensure_no_diff_or_ignore_markers_NoDiff(text) ==
    IF IGNORE_MARKER_RE(text) THEN Raise(MSG_IGNORE, 0) ELSE Ok

\* ensure_no_diff_or_ignore_markers
ensure_no_diff_or_ignore_markers(text) ==
    IF IGNORE_MARKER_RE(text) THEN Raise(MSG_IGNORE, 0)
    ELSE IF DIFF_RE(text) THEN Raise(MSG_DIFF, 0)
    ELSE Ok

\* ensure_breaking_footer_if_needed with the test of bang inverted.
ensure_breaking_footer_if_needed_Inverted(bang, footers) ==
    IF bang # <<>> THEN Ok
    ELSE IF \E i \in 1..Len(footers) :
                StartsWith(footers[i], BREAKING_CHANGE \o <<":", " ">>)
        THEN Ok
    ELSE Raise(MSG_BREAKING, 0)

\* ensure_breaking_footer_if_needed: only the footers are looked at.
ensure_breaking_footer_if_needed(bang, footers) ==
    IF bang = <<>> THEN Ok
    ELSE IF \E i \in 1..Len(footers) :
                StartsWith(footers[i], BREAKING_CHANGE \o <<":", " ">>)
        THEN Ok
    ELSE Raise(MSG_BREAKING, 0)

(***************************************************************************)
(* Inputs: the message files the runs start from                           *)
(***************************************************************************)

\* The longest message, in lines.
MaxLines == 3

\* The longest raw text of the normalizer's runs, in characters.
MaxRawLen == 4

SeqUpTo(S, n) == UNION {[1..k -> S] : k \in 0..n}

\* The character c repeated n times.
Rep(c, n) == [i \in 1..n |-> c]

\* "# c"
L_Comment == <<"#", " ", "c">>

\* "fix: a"
L_FixA == <<"f", "i", "x", ":", " ", "a">>

\* "feat!: b"
L_FeatBangB == <<"f", "e", "a", "t", "!", ":", " ", "b">>

\* "BREAKING CHANGE: x"
L_Breaking == <<"B", "R", "E", "A", "K", "I", "N", "G", " ", "C", "H", "A", "N", "G", "E", ":", " ", "x">>

\* "Merge x"
L_MergeX == <<"M", "e", "r", "g", "e", " ", "x">>

\* "BREAKING CHANGE:<tab>x": a trailer that does not start with
\* "BREAKING CHANGE: ".
L_BreakingTab == <<"B", "R", "E", "A", "K", "I", "N", "G", " ", "C", "H", "A", "N", "G", "E", ":", "\t", "x">>

\* "--- IGNORE ---"
L_Ignore == <<"-", "-", "-", " ", "I", "G", "N", "O", "R", "E", " ", "-", "-", "-">>

\* "diff --git a b"
L_Diff == <<"d", "i", "f", "f", " ", "-", "-", "g", "i", "t", " ", "a", " ", "b">>

\* "feat(cli): add terse output flag"
H_FeatCli == <<"f", "e", "a", "t", "(", "c", "l", "i", ")", ":", " ", "a", "d", "d", " ", "t", "e", "r", "s", "e", " ", "o", "u", "t", "p", "u", "t", " ", "f", "l", "a", "g">>

\* "chore: update"
H_ChoreUpdate == <<"c", "h", "o", "r", "e", ":", " ", "u", "p", "d", "a", "t", "e">>

\* "fix:a"
H_FixNoSpace == <<"f", "i", "x", ":", "a">>

\* "feat!: drop legacy api"
H_FeatBang == <<"f", "e", "a", "t", "!", ":", " ", "d", "r", "o", "p", " ", "l", "e", "g", "a", "c", "y", " ", "a", "p", "i">>

\* "refactor(a/b-C1)!: x"
H_ScopeBang == <<"r", "e", "f", "a", "c", "t", "o", "r", "(", "a", "/", "b", "-", "C", "1", ")", "!", ":", " ", "x">>

\* "Merge branch x"
H_Merge == <<"M", "e", "r", "g", "e", " ", "b", "r", "a", "n", "c", "h", " ", "x">>

\* "Revert x"
H_Revert == <<"R", "e", "v", "e", "r", "t", " ", "x">>

\* "fixup! foo"
H_Fixup == <<"f", "i", "x", "u", "p", "!", " ", "f", "o", "o">>

\* "squash! Foo."
H_Squash == <<"s", "q", "u", "a", "s", "h", "!", " ", "F", "o", "o", ".">>

\* "Add thing"
H_NoColon == <<"A", "d", "d", " ", "t", "h", "i", "n", "g">>

\* "feat(): x"
H_EmptyScope == <<"f", "e", "a", "t", "(", ")", ":", " ", "x">>

\* " Merge x"
H_LeadSpace == <<" ", "M", "e", "r", "g", "e", " ", "x">>

\* "fix:"
H_NoSubject == <<"f", "i", "x", ":">>

\* "foo: x"
H_BadType == <<"f", "o", "o", ":", " ", "x">>

\* "foo(a_b): X."
H_BadTypeScope == <<"f", "o", "o", "(", "a", "_", "b", ")", ":", " ", "X", ".">>

\* "feat(a_b): x"
H_BadScope == <<"f", "e", "a", "t", "(", "a", "_", "b", ")", ":", " ", "x">>

\* "feat(a b)!: X"
H_BadScopeCasing == <<"f", "e", "a", "t", "(", "a", " ", "b", ")", "!", ":", " ", "X">>

\* "fix: x."
H_Period == <<"f", "i", "x", ":", " ", "x", ".">>

\* "fix: X."
H_PeriodCasing == <<"f", "i", "x", ":", " ", "X", ".">>

\* "fix: 1x"
H_Digit == <<"f", "i", "x", ":", " ", "1", "x">>

\* "fix:  "
H_SpaceSubject == <<"f", "i", "x", ":", " ", " ">>

\* "fix: Xy"
H_CasingCharset == <<"f", "i", "x", ":", " ", "X", "y">>

\* "fix: aB"
H_Charset == <<"f", "i", "x", ":", " ", "a", "B">>

\* "fix: a!"
H_Exclaim == <<"f", "i", "x", ":", " ", "a", "!">>

\* "fix: "
FixColonSpace == <<"f", "i", "x", ":", " ">>

\* "Refs: "
RefsColonSpace == <<"R", "e", "f", "s", ":", " ">>

\* A body line one character over the limit, and one exactly at it.
L_Long == Rep("b", MAX_BODY_LINE_LEN + 1)

L_Exact == Rep("c", MAX_BODY_LINE_LEN)

\* A whitespace-only line and a trailer line, both over the limit.
L_LongBlank == Rep(" ", MAX_BODY_LINE_LEN + 1)

L_LongTrailer == RefsColonSpace \o Rep("r", MAX_BODY_LINE_LEN)

\* Headers whose subject is exactly at the limit, and one over it (the
\* second also ends with a period).
H_Subject50 == FixColonSpace \o Rep("a", MAX_SUBJECT_LEN)

H_Subject51 == FixColonSpace \o Rep("a", MAX_SUBJECT_LEN + 1)

H_Subject51Period == FixColonSpace \o Rep("a", MAX_SUBJECT_LEN) \o <<".">>

\* Lines that may stand anywhere in a message.
LinePool ==
    { <<>>, L_Comment, L_FixA, L_FeatBangB, L_Breaking, L_Long, L_Exact,
      L_LongBlank, L_LongTrailer, L_MergeX }

\* First lines: well-formed headers, bypass headers, and headers that break
\* one or several of the header rules.
HeaderPool ==
    { H_FeatCli, H_ChoreUpdate, H_FixNoSpace, H_FeatBang, H_ScopeBang, H_Subject50,
      H_Merge, H_Revert, H_Fixup, H_Squash,
      H_NoColon, H_EmptyScope, H_LeadSpace, H_NoSubject,
      H_BadType, H_BadTypeScope, H_BadScope, H_BadScopeCasing,
      H_Subject51, H_Subject51Period, H_Period, H_PeriodCasing,
      H_Digit, H_SpaceSubject, H_CasingCharset, H_Charset, H_Exclaim, L_Ignore }

\* Lines that follow a header of HeaderPool.
TailPool == { <<>>, L_Long, L_Breaking, L_BreakingTab, L_Ignore, L_Diff }

Messages ==
    SeqUpTo(LinePool, MaxLines)
    \cup {<<h>> \o t : h \in HeaderPool, t \in SeqUpTo(TailPool, MaxLines - 1)}

\* The message as the editor left it: the lines separated by eol, with or
\* without an end of line after the last one.
RECURSIVE Render(_, _, _)
Render(msg, eol, final) ==
    IF msg = <<>> THEN <<>>
    ELSE IF Len(msg) = 1 THEN msg[1] \o (IF final THEN eol ELSE <<>>)
    ELSE msg[1] \o eol \o Render(Tail(msg), eol, final)

\* Unix files ending with a newline, and DOS files that do not.
Styles == { [eol |-> <<"\n">>, final |-> TRUE], [eol |-> <<"\r", "\n">>, final |-> FALSE] }

RawFiles == {Render(m, s.eol, s.final) : m \in Messages, s \in Styles}

\* The characters of the raw texts the normalizer is run on alone.
NormAlphabet == {"a", "#", "$", "[", " ", "\t", "\r", "\n"}

RawTexts == SeqUpTo(NormAlphabet, MaxRawLen)

\* The parts the headers given to validate_header alone are composed of.
\* "foo", "Feat"
TypeInputs == ALLOWED_TYPES \cup { <<"f", "o", "o">>, <<"F", "e", "a", "t">> }

\* none, "cli", "a/b-C1", "a_b"
ScopeInputs == { <<>>, <<"c", "l", "i">>, <<"a", "/", "b", "-", "C", "1">>, <<"a", "_", "b">> }

BangInputs == { <<>>, <<"!">> }

\* ": ", ":", ":  "
SepInputs == { <<":", " ">>, <<":">>, <<":", " ", " ">> }

\* "x", "add terse output flag", "a-z_0/9 (b):,#+", "x.", "Xy", "1x", "aB",
\* "a!", "a b ", and subjects of 49, 50 and 51 characters.
SubjectInputs ==
    { <<"x">>,
      <<"a", "d", "d", " ", "t", "e", "r", "s", "e", " ", "o", "u", "t", "p", "u", "t", " ", "f", "l", "a", "g">>,
      <<"a", "-", "z", "_", "0", "/", "9", " ", "(", "b", ")", ":", ",", "#", "+">>,
      <<"x", ".">>, <<"X", "y">>, <<"1", "x">>, <<"a", "B">>, <<"a", "!">>,
      <<"a", " ", "b", " ">>,
      Rep("a", MAX_SUBJECT_LEN - 1), Rep("a", MAX_SUBJECT_LEN), Rep("a", MAX_SUBJECT_LEN + 1) }

\* type(scope)!<sep>subject, the parenthesised scope left out when empty.
Compose(p) ==
    p.type \o (IF p.scope = <<>> THEN <<>> ELSE <<"(">> \o p.scope \o <<")">>)
           \o p.bang \o p.sep \o p.subject

HeaderParts ==
    [type : TypeInputs, scope : ScopeInputs, bang : BangInputs, sep : SepInputs,
     subject : SubjectInputs]

NoParts == [type |-> <<>>, scope |-> <<>>, bang |-> <<>>, sep |-> <<>>, subject |-> <<>>]

(***************************************************************************)
(* State                                                                   *)
(***************************************************************************)

VARIABLES
    pc,                \* where the run stands
    exists,            \* main: an argument was given and the path exists
    file,              \* the text of the message file on disk
    lines,             \* the lines normalize_message returned
    prev_file,         \* the file as it was before the last normalize_message
    prev_lines,        \* the lines before the last normalize_message
    header,            \* ParsedMessage.header
    header_idx,        \* ParsedMessage.header_idx
    footers,           \* ParsedMessage.footers
    first_footer_idx,  \* ParsedMessage.first_footer_idx
    bang,              \* validate_commit_message's bang
    reasons,           \* ValidationError.reasons
    exit_code,         \* the exit status of the process
    stderr,            \* the lines printed to sys.stderr
    parts,             \* the parts a header given to validate_header was made of
    ret                \* what validate_header returned or raised

vars == <<pc, exists, file, lines, prev_file, prev_lines, header, header_idx, footers,
          first_footer_idx, bang, reasons, exit_code, stderr, parts, ret>>

parsed_vars == <<header, header_idx, footers, first_footer_idx, bang>>

file_vars == <<file, lines, prev_file, prev_lines>>

NoReturn == HeaderResult(Ok, HEADER_RE(<<>>))

\* _error_summary: the first line, one line per reason, then the fixed help.
_error_summary(rs) ==
    <<"commit message validation failed:">>
    \o [i \in 1..Len(rs) |-> rs[i].msg]
    \o << "",
          "Expected header: <type>(<scope>)!: <subject>",
          "Where:",
          "  - type one of: feat|fix|refactor|fmt|test|docs|build|chore",
          "  - scope (optional) matches ^[A-Za-z0-9/-]+$",
          "  - ! (optional) indicates breaking change and REQUIRES a 'BREAKING CHANGE:' footer",
          "  - subject: 1-50 chars, lowercase start, allowed: [a-z0-9 \\ -_/():,#+], no trailing .",
          "",
          "Body (optional): lines wrapped to <= 72 chars.",
          "Footers (optional): one trailer per line, e.g. 'BREAKING CHANGE: ...'",
          "",
          "Examples:",
          "  feat(cli): add terse output flag",
          "  fix: handle empty input without panic" >>

\* Everything but the input file, as it is when the process starts.
Fresh ==
    /\ pc = "start"
    /\ lines = <<>>
    /\ prev_file = <<>>
    /\ prev_lines = <<>>
    /\ header = <<>>
    /\ header_idx = 0
    /\ footers = <<>>
    /\ first_footer_idx = 0
    /\ bang = <<>>
    /\ reasons = <<>>
    /\ exit_code = 0
    /\ stderr = <<>>
    /\ parts = NoParts
    /\ ret = NoReturn

\* A run of the hook: no file, or one of the message files.
Init ==
    /\ Fresh
    /\ \/ exists = FALSE /\ file = <<>>
       \/ exists = TRUE /\ file \in RawFiles

\* A ValidationError raised in validate_commit_message reaches main, which
\* prints the summary and exits with status 1.
Fail(reason) ==
    /\ reasons' = <<reason>>
    /\ stderr' = _error_summary(<<reason>>)
    /\ exit_code' = 1
    /\ pc' = "done"

(***************************************************************************)
(* The steps of main and validate_commit_message                           *)
(***************************************************************************)

\* main: no argument, or the path does not exist.
MainNoFile ==
    /\ pc = "start"
    /\ ~exists
    /\ stderr' = <<MSG_NOFILE>>
    /\ exit_code' = 1
    /\ pc' = "done"
    /\ UNCHANGED <<exists, file_vars, parsed_vars, reasons, parts, ret>>

\* normalize_message(msg_path): the file is read and rewritten, and its
\* lines are returned.
DoNormalize ==
    /\ exists
    /\ LET n == normalize_message(file)
       IN  /\ file' = n.sanitized
           /\ lines' = n.lines
    /\ prev_file' = file
    /\ prev_lines' = lines
    /\ UNCHANGED <<exists, parsed_vars, reasons, exit_code, stderr, parts, ret>>

\* The file left as it is: normalize_message without its write_text.
NormalizeMessage_NoWrite ==
    /\ pc = "start"
    /\ exists
    /\ lines' = normalize_message(file).lines
    /\ prev_file' = file
    /\ prev_lines' = lines
    /\ pc' = "normalized"
    /\ UNCHANGED <<exists, file, parsed_vars, reasons, exit_code, stderr, parts, ret>>

\* parse_message: lines = normalize_message(msg_path)
NormalizeMessage ==
    /\ pc = "start"
    /\ pc' = "normalized"
    /\ DoNormalize

\* parse_message: header, header_idx = find_header(lines)
FindHeader ==
    /\ pc = "normalized"
    /\ LET r == find_header(lines)
       IN  IF r.ok
           THEN /\ header' = r.header
                /\ header_idx' = r.idx
                /\ pc' = "header_found"
                /\ UNCHANGED <<reasons, exit_code, stderr>>
           ELSE /\ Fail(r.reason)
                /\ UNCHANGED <<header, header_idx>>
    /\ UNCHANGED <<exists, file_vars, footers, first_footer_idx, bang, parts, ret>>

\* parse_message: footers, first_footer_idx = collect_footers(lines, header_idx)
CollectFooters ==
    /\ pc = "header_found"
    /\ LET r == collect_footers(lines, header_idx)
       IN  /\ footers' = r.footers
           /\ first_footer_idx' = r.first_footer_idx
    /\ pc' = "parsed"
    /\ UNCHANGED <<exists, file_vars, header, header_idx, bang, reasons, exit_code,
                   stderr, parts, ret>>

\* validate_commit_message: parsed.header.startswith(AUTO_BYPASS_PREFIXES)
BypassCheck ==
    /\ pc = "parsed"
    /\ pc' = IF \E p \in AUTO_BYPASS_PREFIXES : StartsWith(header, p)
             THEN "done"
             ELSE "markers"
    /\ UNCHANGED <<exists, file_vars, parsed_vars, reasons, exit_code, stderr, parts, ret>>

\* validate_commit_message: ensure_no_diff_or_ignore_markers("\n".join(lines))
EnsureNoDiffOrIgnoreMarkers ==
    /\ pc = "markers"
    /\ LET r == ensure_no_diff_or_ignore_markers(Join(lines))
       IN  IF r.ok
           THEN pc' = "header" /\ UNCHANGED <<reasons, exit_code, stderr>>
           ELSE Fail(r.reason)
    /\ UNCHANGED <<exists, file_vars, parsed_vars, parts, ret>>

\* validate_commit_message: _, _, bang, _ = validate_header(parsed.header)
ValidateHeader ==
    /\ pc = "header"
    /\ LET r == validate_header(header)
       IN  IF r.ok
           THEN /\ bang' = r.bang
                /\ pc' = "breaking"
                /\ UNCHANGED <<reasons, exit_code, stderr>>
           ELSE /\ Fail(r.reason)
                /\ UNCHANGED bang
    /\ UNCHANGED <<exists, file_vars, header, header_idx, footers, first_footer_idx,
                   parts, ret>>

\* validate_commit_message: ensure_breaking_footer_if_needed(bang, footers)
EnsureBreakingFooterIfNeeded ==
    /\ pc = "breaking"
    /\ LET r == ensure_breaking_footer_if_needed(bang, footers)
       IN  IF r.ok
           THEN pc' = "body" /\ UNCHANGED <<reasons, exit_code, stderr>>
           ELSE Fail(r.reason)
    /\ UNCHANGED <<exists, file_vars, parsed_vars, parts, ret>>

\* validate_commit_message: validate_body(lines, header_idx, first_footer_idx),
\* after which main returns.
ValidateBody ==
    /\ pc = "body"
    /\ LET r == validate_body(lines, header_idx, first_footer_idx)
       IN  IF r.ok
           THEN pc' = "done" /\ UNCHANGED <<reasons, exit_code, stderr>>
           ELSE Fail(r.reason)
    /\ UNCHANGED <<exists, file_vars, parsed_vars, parts, ret>>

Next ==
    \/ MainNoFile
    \/ NormalizeMessage
    \/ FindHeader
    \/ CollectFooters
    \/ BypassCheck
    \/ EnsureNoDiffOrIgnoreMarkers
    \/ ValidateHeader
    \/ EnsureBreakingFooterIfNeeded
    \/ ValidateBody

Spec == Init /\ [][Next]_vars

(***************************************************************************)
(* normalize_message alone, run on a file and again on the file it wrote   *)
(***************************************************************************)

InitNorm ==
    /\ Fresh
    /\ exists = TRUE
    /\ file \in RawTexts

\* normalize_message called again on the path it has just rewritten.
NormalizeAgain ==
    /\ pc = "normalized"
    /\ pc' = "renormalized"
    /\ DoNormalize

NextNorm ==
    \/ NormalizeMessage
    \/ NormalizeAgain

SpecNorm == InitNorm /\ [][NextNorm]_vars

(***************************************************************************)
(* validate_header alone, applied to composed headers                      *)
(***************************************************************************)

InitHeader ==
    /\ pc = "header_input"
    /\ exists = TRUE
    /\ file = <<>>
    /\ lines = <<>>
    /\ prev_file = <<>>
    /\ prev_lines = <<>>
    /\ parts \in HeaderParts
    /\ header = Compose(parts)
    /\ header_idx = 0
    /\ footers = <<>>
    /\ first_footer_idx = 0
    /\ bang = <<>>
    /\ reasons = <<>>
    /\ exit_code = 0
    /\ stderr = <<>>
    /\ ret = NoReturn

\* validate_header(header) called on its own.
ApplyValidateHeader ==
    /\ pc = "header_input"
    /\ ret' = validate_header(header)
    /\ pc' = "header_validated"
    /\ UNCHANGED <<exists, file_vars, parsed_vars, reasons, exit_code, stderr, parts>>

NextHeader == ApplyValidateHeader

SpecHeader == InitHeader /\ [][NextHeader]_vars

(***************************************************************************)
(* The vocabulary of the specification, stated on its own terms            *)
(***************************************************************************)

\* The error of the specification's taxonomy that a reason stands for.
Kind(reason) ==
    CASE reason.msg = MSG_EMPTY    -> "EmptyMessage"
      [] reason.msg = MSG_IGNORE   -> "ForbiddenContent"
      [] reason.msg = MSG_DIFF     -> "ForbiddenContent"
      [] reason.msg = MSG_HEADER   -> "MalformedHeader"
      [] reason.msg = MSG_TYPE     -> "InvalidType"
      [] reason.msg = MSG_SCOPE    -> "InvalidScope"
      [] reason.msg = MSG_LENGTH   -> "SubjectLength"
      [] reason.msg = MSG_PERIOD   -> "SubjectTrailingPeriod"
      [] reason.msg = MSG_CASING   -> "SubjectCasing"
      [] reason.msg = MSG_CHARSET  -> "SubjectCharset"
      [] reason.msg = MSG_EXCLAIM  -> "SubjectCharset"
      [] reason.msg = MSG_BREAKING -> "MissingBreakingFooter"
      [] reason.msg = MSG_BODY     -> "BodyLineTooLong"
      [] OTHER                     -> "Unknown"

\* The run of a message file has ended.
Finished == pc = "done" /\ exists

\* The run ended with exit code 1 and the one reason of kind k.
FailsWith(k) ==
    /\ Finished
    /\ exit_code = 1
    /\ Len(reasons) = 1
    /\ Kind(reasons[1]) = k

\* The run ended with exit code 0 and nothing reported.
Succeeds == Finished /\ exit_code = 0 /\ reasons = <<>> /\ stderr = <<>>

Min(S) == CHOOSE x \in S : \A y \in S : x <= y

Max(a, b) == IF a >= b THEN a ELSE b

\* The number of elements equal to x at the end of s.
TrailingRun(s, x) ==
    IF \A i \in 1..Len(s) : s[i] = x
    THEN Len(s)
    ELSE Len(s) - (CHOOSE i \in 1..Len(s) :
                      s[i] # x /\ \A j \in (i + 1)..Len(s) : s[j] = x)

\* s without the empty lines at its end.
StripTrailingEmpty(s) == SubSeq(s, 1, Len(s) - TrailingRun(s, <<>>))

\* The message has a line that is not blank.
HasHeader(ls) == \E i \in 1..Len(ls) : ~IsBlank(ls[i])

\* The 0-based index of the header: the first line that is not blank.
HeaderIndex(ls) == Min({i \in 0..(Len(ls) - 1) : ~IsBlank(At(ls, i))})

HeaderOf(ls) == At(ls, HeaderIndex(ls))

\* The bypass prefixes of the specification: "Merge ", "Revert ", "fixup! ",
\* "squash! ".
BypassPrefixes ==
    { <<"M", "e", "r", "g", "e", " ">>,
      <<"R", "e", "v", "e", "r", "t", " ">>,
      <<"f", "i", "x", "u", "p", "!", " ">>,
      <<"s", "q", "u", "a", "s", "h", "!", " ">> }

IsBypass(ls) == HasHeader(ls) /\ \E p \in BypassPrefixes : StartsWith(HeaderOf(ls), p)

\* The type whitelist of the specification.
TypeWhitelist ==
    { <<"f", "e", "a", "t">>, <<"f", "i", "x">>,
      <<"r", "e", "f", "a", "c", "t", "o", "r">>, <<"f", "m", "t">>,
      <<"t", "e", "s", "t">>, <<"d", "o", "c", "s">>,
      <<"b", "u", "i", "l", "d">>, <<"c", "h", "o", "r", "e">> }

\* What may stand between the type and the colon: nothing, "!", "(scope)" or
\* "(scope)!", the scope not empty and without ")".
IsScopeBang(r) ==
    LET body == IF r # <<>> /\ r[Len(r)] = "!" THEN SubSeq(r, 1, Len(r) - 1) ELSE r
    IN  \/ body = <<>>
        \/ /\ Len(body) >= 3
           /\ body[1] = "("
           /\ body[Len(body)] = ")"
           /\ \A i \in 2..(Len(body) - 1) : body[i] # ")"

\* p is a type of one or more lowercase letters, then an optional (scope),
\* then an optional "!".
IsTypeScopeBang(p) ==
    \E n \in 1..Len(p) :
       /\ \A j \in 1..n : p[j] \in Lower
       /\ (n < Len(p) => p[n + 1] \notin Lower)
       /\ IsScopeBang(SubSeq(p, n + 1, Len(p)))

\* The header grammar type(scope)!: subject read as a grammar: the position
\* of the colon that ends type(scope)!, and the parts around it.  The subject
\* is what follows the colon and the whitespace after it (the last
\* character, when only whitespace follows).
Grammar(h) ==
    LET colons == {c \in 2..(Len(h) - 1) : h[c] = ":" /\ IsTypeScopeBang(SubSeq(h, 1, c - 1))}
    IN  IF colons = {}
        THEN [ok |-> FALSE, type |-> <<>>, scope |-> <<>>, bang |-> FALSE, subject |-> <<>>]
        ELSE LET c     == Min(colons)
                 n     == PrefixRun(h, Lower)
                 flag  == h[c - 1] = "!"
                 last  == IF flag THEN c - 2 ELSE c - 1
                 after == SubSeq(h, c + 1, Len(h))
                 ws    == PrefixRun(after, Space)
             IN  [ok      |-> TRUE,
                  type    |-> SubSeq(h, 1, n),
                  scope   |-> SubSeq(h, n + 2, last - 1),
                  bang    |-> flag,
                  subject |-> SubSeq(after, Max(1, IF ws = Len(after) THEN ws ELSE ws + 1),
                                     Len(after))]

\* The rules of the specification for a header, one by one.
TypeAllowed(g) == g.type \in TypeWhitelist

ScopeAllowed(g) == \A i \in 1..Len(g.scope) : g.scope[i] \in ScopeChars

SubjectLengthOk(g) == Len(g.subject) >= 1 /\ Len(g.subject) <= MAX_SUBJECT_LEN

SubjectNoPeriod(g) == g.subject = <<>> \/ g.subject[Len(g.subject)] # "."

SubjectStartsLower(g) == g.subject # <<>> /\ g.subject[1] \in Lower

SubjectCharsOk(g) == \A i \in 1..Len(g.subject) : g.subject[i] \in SubjectChars

SubjectNoExclaim(g) == \A i \in 1..Len(g.subject) : g.subject[i] # "!"

\* The header passes every header check.
PassesHeaderChecks(h) ==
    LET g == Grammar(h)
    IN  /\ g.ok
        /\ TypeAllowed(g)
        /\ ScopeAllowed(g)
        /\ SubjectLengthOk(g)
        /\ SubjectNoPeriod(g)
        /\ SubjectStartsLower(g)
        /\ SubjectCharsOk(g)
        /\ SubjectNoExclaim(g)

\* The header carries the breaking flag.
HasBreakingFlag(h) == Grammar(h).ok /\ Grammar(h).bang

\* The message holds an IGNORE marker or a raw diff marker.
HasForbiddenContent(ls) == IGNORE_MARKER_RE(Join(ls)) \/ DIFF_RE(Join(ls))

\* The line is a trailer: TOKEN, a colon, a whitespace character.
IsTrailer(line) == FOOTER_RE(line)

\* The 0-based index where the footer block starts: the topmost trailer line
\* below which every line is blank or a trailer; Len(ls) when there is none.
FooterStart(ls) ==
    LET tops == {i \in 0..(Len(ls) - 1) :
                    /\ ~IsBlank(At(ls, i))
                    /\ IsTrailer(At(ls, i))
                    /\ \A j \in (i + 1)..(Len(ls) - 1) :
                          IsBlank(At(ls, j)) \/ IsTrailer(At(ls, j))}
    IN  IF tops = {} THEN Len(ls) ELSE Min(tops)

\* A line of the footer block starts with exactly "BREAKING CHANGE: ".
HasBreakingFooter(ls) ==
    \E i \in FooterStart(ls)..(Len(ls) - 1) :
       StartsWith(At(ls, i), BREAKING_CHANGE \o <<":", " ">>)

\* The 0-based indices of the body lines over the limit: not blank, strictly
\* between the header and the footer block.
LongBodyLines(ls) ==
    {i \in (HeaderIndex(ls) + 1)..(FooterStart(ls) - 1) :
        ~IsBlank(At(ls, i)) /\ Len(At(ls, i)) > MAX_BODY_LINE_LEN}

\* The run is one of a message with a header that is not bypassed.
Validated == Finished /\ HasHeader(lines) /\ ~IsBypass(lines)

(***************************************************************************)
(* C1: a message whose header starts with "Merge ", "Revert ", "fixup! "   *)
(* or "squash! " is never handed to a validation rule and its run ends     *)
(* with exit code 0 and nothing reported, whatever its other lines hold.   *)
(***************************************************************************)
C1_BypassSucceeds ==
    /\ (Finished /\ IsBypass(lines) => Succeeds)
    /\ (pc \in {"markers", "header", "breaking", "body"} => ~IsBypass(lines))

\* A bypassed run that succeeded with an overlong body line and an IGNORE
\* marker in the message.
C1_Witness ==
    /\ Succeeds
    /\ IsBypass(lines)
    /\ LongBodyLines(lines) # {}
    /\ HasForbiddenContent(lines)

\* The message has a line "--- IGNORE ---" or a line starting with "diff --git ".
HasMarkerLine(ls) ==
    \E i \in 1..Len(ls) :
       \/ ls[i] = L_Ignore
       \/ StartsWith(ls[i], <<"d", "i", "f", "f", " ", "-", "-", "g", "i", "t", " ">>)

(***************************************************************************)
(* C2, as stated: every message with a line "--- IGNORE ---" or a line     *)
(* starting with "diff --git " fails with ForbiddenContent, whatever its   *)
(* header.                                                                 *)
(***************************************************************************)
C2_Original ==
    Finished /\ HasMarkerLine(lines) => FailsWith("ForbiddenContent")

(***************************************************************************)
(* C2, amended: every message with such a line whose header does not start *)
(* with a bypass prefix fails with ForbiddenContent, whatever else the     *)
(* header and the other lines hold.                                        *)
(***************************************************************************)
C2_ForbiddenUnlessBypassed ==
    Finished /\ HasMarkerLine(lines) /\ ~IsBypass(lines) => FailsWith("ForbiddenContent")

\* A diff line below a header that matches no grammar: ForbiddenContent is
\* what is reported.
C2_Witness ==
    /\ FailsWith("ForbiddenContent")
    /\ HasMarkerLine(lines)
    /\ ~Grammar(HeaderOf(lines)).ok
    /\ reasons[1].msg = MSG_DIFF

(***************************************************************************)
(* C3: for a message that is not bypassed, holds no forbidden content and  *)
(* whose header passes every header check with the breaking flag set, the  *)
(* run fails with MissingBreakingFooter exactly when no line of the footer *)
(* block starts with "BREAKING CHANGE: "; and no run fails with that       *)
(* reason unless its header carries the flag.                              *)
(***************************************************************************)
C3_BreakingFooter ==
    /\ (/\ Validated
        /\ ~HasForbiddenContent(lines)
        /\ PassesHeaderChecks(HeaderOf(lines))
        /\ HasBreakingFlag(HeaderOf(lines)))
       => (FailsWith("MissingBreakingFooter") <=> ~HasBreakingFooter(lines))
    /\ (FailsWith("MissingBreakingFooter")
           => HasHeader(lines) /\ HasBreakingFlag(HeaderOf(lines)))

\* A BREAKING CHANGE line above a line that is no trailer does not count.
C3_Witness ==
    /\ FailsWith("MissingBreakingFooter")
    /\ \E i \in 1..Len(lines) : StartsWith(lines[i], BREAKING_CHANGE \o <<":", " ">>)
    /\ FooterStart(lines) = Len(lines)

(***************************************************************************)
(* C4: for a message that is not bypassed and passes the forbidden-content,*)
(* header and breaking-footer checks, the run fails with BodyLineTooLong   *)
(* exactly when a line that is not blank, strictly between the header and  *)
(* the footer block, has more than 72 characters; the number reported is   *)
(* the 1-based position of the topmost such line in the normalized         *)
(* message.  Otherwise the run succeeds.                                   *)
(***************************************************************************)
C4_BodyLineLength ==
    (/\ Validated
     /\ ~HasForbiddenContent(lines)
     /\ PassesHeaderChecks(HeaderOf(lines))
     /\ (HasBreakingFlag(HeaderOf(lines)) => HasBreakingFooter(lines)))
    => IF LongBodyLines(lines) = {}
       THEN Succeeds
       ELSE /\ FailsWith("BodyLineTooLong")
            /\ reasons[1].arg = Min(LongBodyLines(lines)) + 1

\* Two overlong body lines: the upper one is reported.
C4_Witness ==
    /\ FailsWith("BodyLineTooLong")
    /\ Cardinality(LongBodyLines(lines)) >= 2
    /\ reasons[1].arg = Min(LongBodyLines(lines)) + 1

\* The parts make a header of the form the specification calls valid.
WellFormedParts(p) ==
    /\ p.type \in TypeWhitelist
    /\ \A i \in 1..Len(p.scope) : p.scope[i] \in ScopeChars
    /\ p.sep = <<":", " ">>
    /\ Len(p.subject) >= 1
    /\ Len(p.subject) <= MAX_SUBJECT_LEN
    /\ p.subject[1] \in Lower
    /\ p.subject[Len(p.subject)] # "."
    /\ \A i \in 1..Len(p.subject) : p.subject[i] \in SubjectChars /\ p.subject[i] # "!"

(***************************************************************************)
(* C5: validate_header raises nothing and returns the type, scope,         *)
(* breaking flag and subject for every header type(scope)!: subject, with  *)
(* (scope) and ! each optional, whose type is in the whitelist, whose scope*)
(* matches [A-Za-z0-9/-]+ and whose subject has 1 to 50 characters of the  *)
(* allowed set, starts with a lowercase letter, does not end with "." and  *)
(* holds no "!".                                                           *)
(***************************************************************************)
C5_ValidHeaderAccepted ==
    pc = "header_validated" /\ WellFormedParts(parts)
    => /\ ret.ok
       /\ ret.type = parts.type
       /\ ret.scope = parts.scope
       /\ ret.bang = parts.bang
       /\ ret.subject = parts.subject

\* A header with scope and flag whose subject has exactly 50 characters.
C5_Witness ==
    /\ pc = "header_validated"
    /\ WellFormedParts(parts)
    /\ parts.scope # <<>>
    /\ parts.bang # <<>>
    /\ Len(parts.subject) = MAX_SUBJECT_LEN
    /\ ret.ok

(***************************************************************************)
(* C6: in every run whose file exists the normalized text is on disk       *)
(* before the header search, the bypass check or any rule has produced     *)
(* anything, and it stays there: whenever the run has moved past its       *)
(* start, and so at its end whatever the outcome, the file holds the       *)
(* normalized form of the text the run found.                              *)
(***************************************************************************)
C6_RewrittenBeforeOutcome ==
    /\ (exists /\ pc # "start" => file = normalize_message(prev_file).sanitized)
    /\ (exists /\ pc = "start"
           => header = <<>> /\ footers = <<>> /\ reasons = <<>> /\ stderr = <<>>)

\* A failed run that left the file different from the one it found.
C6_Witness ==
    /\ Finished
    /\ exit_code = 1
    /\ Kind(reasons[1]) # "EmptyMessage"
    /\ file # prev_file

\* The stored text and the returned lines hold the same lines, empty lines at
\* the end aside.
SameLines == StripTrailingEmpty(Split(file)) = StripTrailingEmpty(lines)

C8_Original ==
    pc = "renormalized" => file = prev_file /\ lines = prev_lines

(***************************************************************************)
(* C8, amended: a second normalize_message on the file the first one wrote *)
(* writes back exactly the same text and strips no line; the lines it      *)
(* returns are the lines of that text: those the first run returned,       *)
(* followed by one empty line when the first run had to append the final   *)
(* newline (and two empty lines when the first run returned no line).      *)
(***************************************************************************)
C8_IdempotentText ==
    pc = "renormalized"
    => /\ file = prev_file
       /\ lines = Split(prev_file)
       /\ lines = IF prev_lines = <<>> THEN << <<>>, <<>> >>
                  ELSE IF EndsWith(Join(prev_lines), <<NL>>) THEN prev_lines
                  ELSE prev_lines \o << <<>> >>

\* A second run that returned one line more than the first.
C8_Witness ==
    /\ pc = "renormalized"
    /\ file = prev_file
    /\ Len(file) > 1
    /\ Len(lines) = Len(prev_lines) + 1

(***************************************************************************)
(* Fail-fast order: the reason the checks of the specification, taken in   *)
(* the given order, make expected: the kind of the earliest violated       *)
(* check, or "none".  withScope adds the scope check after the type        *)
(* whitelist.                                                              *)
(***************************************************************************)
ExpectedKind(ls, withScope) ==
    LET g == Grammar(HeaderOf(ls))
    IN  IF HasForbiddenContent(ls) THEN "ForbiddenContent"
        ELSE IF ~g.ok THEN "MalformedHeader"
        ELSE IF ~TypeAllowed(g) THEN "InvalidType"
        ELSE IF withScope /\ ~ScopeAllowed(g) THEN "InvalidScope"
        ELSE IF ~SubjectLengthOk(g) THEN "SubjectLength"
        ELSE IF ~SubjectNoPeriod(g) THEN "SubjectTrailingPeriod"
        ELSE IF ~SubjectStartsLower(g) THEN "SubjectCasing"
        ELSE IF ~SubjectCharsOk(g) THEN "SubjectCharset"
        ELSE IF ~SubjectNoExclaim(g) THEN "SubjectCharset"
        ELSE IF g.bang /\ ~HasBreakingFooter(ls) THEN "MissingBreakingFooter"
        ELSE IF LongBodyLines(ls) # {} THEN "BodyLineTooLong"
        ELSE "none"

FailFast(withScope) ==
    Validated
    => IF ExpectedKind(lines, withScope) = "none"
       THEN Succeeds
       ELSE FailsWith(ExpectedKind(lines, withScope))

(***************************************************************************)
(* C9, as stated: a failing run reports exactly one reason, that of the    *)
(* earliest violated check in the order forbidden content, header grammar, *)
(* type whitelist, subject length, trailing period, casing, character set, *)
(* subject "!", breaking-change footer, body line length; a run succeeds   *)
(* only if no check is violated.                                           *)
(***************************************************************************)
C9_Original == FailFast(FALSE)

(***************************************************************************)
(* C9, amended: the same, with the scope check (the scope matches          *)
(* [A-Za-z0-9/-]+, reason InvalidScope) in the order between the type      *)
(* whitelist and the subject length.                                       *)
(***************************************************************************)
C9_FailFastWithScope == FailFast(TRUE)

\* A header that breaks two rules and stands above an overlong body line:
\* the trailing period, the earliest of the three, is reported.
C9_Witness ==
    /\ FailsWith("SubjectTrailingPeriod")
    /\ ~SubjectStartsLower(Grammar(HeaderOf(lines)))
    /\ LongBodyLines(lines) # {}

\* collect_footers has returned in this run.
Collected ==
    /\ exists
    /\ pc \notin {"start", "normalized", "header_found"}
    /\ ~FailsWith("EmptyMessage")

\* The header is a trailer and nothing below it stops the backward scan.
HeaderIsFooter(ls) ==
    /\ IsTrailer(HeaderOf(ls))
    /\ \A j \in (HeaderIndex(ls) + 1)..(Len(ls) - 1) :
          IsBlank(At(ls, j)) \/ IsTrailer(At(ls, j))

(***************************************************************************)
(* C10: collect_footers returns the index of the topmost line of the       *)
(* trailing run of trailer lines (Len(lines) when the last line that is    *)
(* not blank is no trailer) and the lines from there on that are not       *)
(* blank, each a trailer.  The scan does not stop at the header: a header  *)
(* that is a trailer with nothing but trailers and blank lines below it is *)
(* returned as the first footer, the body is then empty, and the message   *)
(* is still accepted when its header is well formed (as "chore: update"    *)
(* alone is).                                                              *)
(***************************************************************************)
C10_FooterBlock ==
    Collected
    => /\ first_footer_idx = FooterStart(lines)
       /\ footers = SelectSeq(SubSeq(lines, FooterStart(lines) + 1, Len(lines)),
                              LAMBDA line : ~IsBlank(line))
       /\ \A i \in 1..Len(footers) : IsTrailer(footers[i])
       /\ (HeaderIsFooter(lines)
              => /\ first_footer_idx = header_idx
                 /\ footers # <<>>
                 /\ footers[1] = header
                 /\ LongBodyLines(lines) = {}
                 /\ (/\ Validated
                     /\ PassesHeaderChecks(header)
                     /\ ~HasForbiddenContent(lines)
                     => Succeeds))
       /\ (Finished /\ StripTrailingEmpty(lines) = <<H_ChoreUpdate>> => Succeeds)

\* An accepted message whose header was returned as the first of two footers.
C10_Witness ==
    /\ Succeeds
    /\ ~IsBypass(lines)
    /\ HeaderIsFooter(lines)
    /\ Len(footers) >= 2
    /\ footers[1] = header

====
